---- MODULE Spec2Model ----
(***************************************************************************)
(* RouteAPI (include/engine/api/route_api.hpp): MakeResponse filters the   *)
(* raw routes and calls MakeRoute for each valid one; MakeRoute assembles  *)
(* every leg, runs the guidance post-processing chain, resolves manual     *)
(* maneuver overrides against the leg's steps, and extracts annotations.   *)
(*                                                                         *)
(* Iterators and indices are 0-based offsets as in the source; At(s, k)    *)
(* reads element k of a vector.  The diagnostic output of lines 105-125    *)
(* and the geometry encoding of lines 302-345 read the legs and write      *)
(* nothing the statements below are about; they are left out.              *)
(***************************************************************************)
EXTENDS Integers, Sequences, FiniteSets, TLC

VARIABLES
    raw_routes,       \* InternalManyRoutesResult::routes
    parameters,       \* RouteParameters: steps, annotations, annotations_type
    facade,           \* data facade: maneuver overrides in storage order
    pc,               \* position in MakeResponse / MakeRoute
    route_it,         \* MakeResponse: offset of `route` in raw_routes.routes
    jsRoutes,         \* MakeResponse: jsRoutes.values
    response,         \* response.values
    idx,              \* MakeRoute: leg index of the loop at line 132
    legs,             \* MakeRoute: std::vector<guidance::RouteLeg>
    leg_geometries,   \* MakeRoute: std::vector<guidance::LegGeometry>
    leg,              \* the leg under construction (steps and metrics)
    leg_geometry,     \* the geometry of the leg under construction
    chain,            \* post-processing calls made for this leg, in call order
    current_step_it,  \* override loop: offset of current_step_it in leg.steps
    relation_it,      \* override loop: offset of maneuver_relation in overrides
    done,             \* override loop: the `done` flag
    evaluated         \* log: the override evaluations made for this leg

vars == << raw_routes, parameters, facade, pc, route_it, jsRoutes, response,
           idx, legs, leg_geometries, leg, leg_geometry, chain,
           current_step_it, relation_it, done, evaluated >>

----------------------------------------------------------------------------
(* Vectors and small helpers *)

At(s, k) == s[k + 1]

Min(a, b) == IF a < b THEN a ELSE b

RECURSIVE SumSeq(_)
SumSeq(s) == IF s = << >> THEN 0 ELSE Head(s) + SumSeq(Tail(s))

----------------------------------------------------------------------------
(* Bounds of the explored inputs *)

MaxRoutes == 3        \* raw routes per response
MaxLegs == 2          \* legs per raw route
MaxSteps == 7         \* steps per leg in the override-resolution runs
MaxLocations == 3     \* locations per leg in the annotation runs

----------------------------------------------------------------------------
(* Turn instructions (extractor/guidance/turn_instruction.hpp) *)

\* The sentinel direction of an override that leaves the direction alone.
MaxDirectionModifier == "MaxDirectionModifier"

\* Instruction computed by the guidance chain for a step.
ComputedInstruction == [type |-> "Turn", direction_modifier |-> "Straight"]

----------------------------------------------------------------------------
(* Annotation flags (RouteParameters::AnnotationsType, a bit-flag enum) *)

AnnotationFlags == {"Duration", "Nodes", "Distance", "Weight", "Datasources", "Speed"}
AnnotationsNone == {}
AnnotationsAll == AnnotationFlags

\* operator& on AnnotationsType: true when the flag's bit is set in `type`
HasFlag(type, flag) == (type \cap {flag}) # {}

----------------------------------------------------------------------------
(* Collaborators outside route_api.hpp, by their contract *)

\* InternalRouteResult::is_valid
is_valid(route) == route.valid

\* BaseAPI::MakeWaypoints: the source anchor of the first leg, then the target
\* anchor of every leg.
MakeWaypoints(segment_end_coordinates) ==
    << segment_end_coordinates[1].source_phantom >>
        \o [ i \in 1 .. Len(segment_end_coordinates) |->
                segment_end_coordinates[i].target_phantom ]

\* guidance::assembleGeometry: the leg's locations, one annotation per adjacent
\* pair of locations, one OSM node id per location.
assembleGeometry(path_data) == path_data.geometry

\* guidance::assembleLeg: the leg's aggregate metrics, no steps yet.
assembleLeg(path_data, geometry) ==
    [ steps |-> << >>,
      distance |-> SumSeq([ n \in 1 .. Len(geometry.annotations) |->
                              geometry.annotations[n].distance ]) ]

\* guidance::assembleSteps and the stages applied to its result are opaque
\* here: path_data.steps is the step sequence as it leaves the chain, and a
\* stage hands on the sequence it is given.
assembleSteps(path_data) == path_data.steps

\* guidance::assembleRoute: the route's metrics summed over its legs.
assembleRoute(route_legs) ==
    [ distance |-> SumSeq([ n \in 1 .. Len(route_legs) |-> route_legs[n].distance ]) ]

\* facade.GetOverridesThatStartAt: the stored overrides keyed by from_node,
\* in storage order.
GetOverridesThatStartAt(f, from_id) ==
    LET StartsHere(o) == o.from_node = from_id
    IN  SelectSeq(f.overrides, StartsHere)

\* facade.GetCoordinateOfNode
GetCoordinateOfNode(f, node_id) == f.coordinates[node_id]

----------------------------------------------------------------------------
(* MakeResponse, line 63-64: the route whose anchors become the waypoints *)

FirstValidAnchors(routes) ==
    LET valid == { r \in 1 .. Len(routes) : is_valid(routes[r]) }
        first == IF valid = {} THEN 1 ELSE CHOOSE r \in valid : \A q \in valid : r <= q
    IN  routes[first].segment_end_coordinates

WaypointAnchors(routes) == At(routes, 0).segment_end_coordinates

----------------------------------------------------------------------------
(* MakeRoute, lines 196-206: the post-processing calls in source order.      *)
(* `reads` is the variable handed to the stage, `writes` the one assigned.   *)

StageCallsCollapseFirst ==
    << [stage |-> "trimShortSegments",        reads |-> "steps",     writes |-> "steps"],
       [stage |-> "collapseTurnInstructions", reads |-> "steps",     writes |-> "leg.steps"],
       [stage |-> "handleRoundabouts",        reads |-> "leg.steps", writes |-> "leg.steps"],
       [stage |-> "anticipateLaneChange",     reads |-> "leg.steps", writes |-> "leg.steps"],
       [stage |-> "buildIntersections",       reads |-> "leg.steps", writes |-> "leg.steps"],
       [stage |-> "suppressShortNameSegments", reads |-> "leg.steps", writes |-> "leg.steps"],
       [stage |-> "assignRelativeLocations",  reads |-> "leg.steps", writes |-> "leg.steps"],
       [stage |-> "resyncGeometry",           reads |-> "leg.steps", writes |-> "leg_geometry"] >>

StageCalls ==
    << [stage |-> "trimShortSegments",        reads |-> "steps",     writes |-> "steps"],
       [stage |-> "handleRoundabouts",        reads |-> "steps",     writes |-> "leg.steps"],
       [stage |-> "collapseTurnInstructions", reads |-> "leg.steps", writes |-> "leg.steps"],
       [stage |-> "anticipateLaneChange",     reads |-> "leg.steps", writes |-> "leg.steps"],
       [stage |-> "buildIntersections",       reads |-> "leg.steps", writes |-> "leg.steps"],
       [stage |-> "suppressShortNameSegments", reads |-> "leg.steps", writes |-> "leg.steps"],
       [stage |-> "assignRelativeLocations",  reads |-> "leg.steps", writes |-> "leg.steps"],
       [stage |-> "resyncGeometry",           reads |-> "leg.steps", writes |-> "leg_geometry"] >>

\* The call that last assigned step-sequence variable v, given the calls made.
RECURSIVE Producer(_, _)
Producer(calls, v) ==
    IF calls = << >>
    THEN (IF v = "steps" THEN "assembleSteps" ELSE "none")
    ELSE LET last == calls[Len(calls)]
         IN  IF last.writes = v THEN last.stage
             ELSE Producer(SubSeq(calls, 1, Len(calls) - 1), v)

----------------------------------------------------------------------------
(* MakeRoute, lines 209-294: the maneuver override resolver *)

\* The literal 5 of lines 228 and 239: the most steps a maneuver may span.
LookAheadSteps == 5

\* Line 227-228: std::min(5l, std::distance(current_step_it, leg.steps.end()))
MAX_MANEUVER_DISTANCE(steps, step_it) == Min(LookAheadSteps, Len(steps) - step_it)

\* Line 229
max_steps_fwd(steps, step_it) == step_it + MAX_MANEUVER_DISTANCE(steps, step_it)

\* std::find_if over [first, last): the lowest of the offsets whose element
\* passes the test (`hits`), `last` when none does.
FirstOffset(hits, last) ==
    IF hits = {} THEN last
    ELSE CHOOSE k \in hits : \A h \in hits : k <= h

\* Lines 230-233: the first window step that starts on the override's to_node
to_match(steps, step_it, relation) ==
    LET last == max_steps_fwd(steps, step_it)
    IN  FirstOffset({ k \in step_it .. (last - 1) :
                        At(steps, k).from_id = relation.to_node }, last)

ForwardTargetId(phantoms, reversed_target) == phantoms.target_phantom.forward_segment_id

\* Lines 240-241: the last edge-based node of the route sequence
TargetSegmentId(phantoms, reversed_target) ==
    IF reversed_target
    THEN phantoms.target_phantom.reverse_segment_id
    ELSE phantoms.target_phantom.forward_segment_id

AlwaysNearEnd(steps, step_it) == FALSE

\* Line 239, first operand: the window was not clipped by the end of the leg
WindowIsFull(steps, step_it) == MAX_MANEUVER_DISTANCE(steps, step_it) >= LookAheadSteps

\* Lines 234-246: the override is passed over (`continue`) without a via search
RelationSkipped(steps, step_it, phantoms, reversed_target, relation) ==
    /\ to_match(steps, step_it, relation) = max_steps_fwd(steps, step_it)
    /\ \/ WindowIsFull(steps, step_it)
       \/ TargetSegmentId(phantoms, reversed_target) # relation.to_node

\* Lines 255-261: the step's slice of the leg geometry holds the coordinate
SliceContains(geometry, step, coordinate) ==
    \E j \in step.geometry_begin .. (step.geometry_end - 1) :
        At(geometry.locations, j) = coordinate

LastViaStep(f, steps, geometry, step_it, relation) ==
    LET via_node_coords == GetCoordinateOfNode(f, relation.via_node_id)
        last == max_steps_fwd(steps, step_it)
        hits == { k \in step_it .. (last - 1) :
                    SliceContains(geometry, At(steps, k), via_node_coords) }
    IN  IF hits = {} THEN last
        ELSE CHOOSE k \in hits : \A h \in hits : k >= h

\* Lines 249-263: the first window step whose slice holds the via node's
\* coordinate, max_steps_fwd when none does
ViaStep(f, steps, geometry, step_it, relation) ==
    LET via_node_coords == GetCoordinateOfNode(f, relation.via_node_id)
        last == max_steps_fwd(steps, step_it)
    IN  FirstOffset({ k \in step_it .. (last - 1) :
                        SliceContains(geometry, At(steps, k), via_node_coords) }, last)

TypeOnly(step, relation) ==
    [ step EXCEPT !.maneuver.instruction.type = relation.override_type ]

\* Lines 278-285: the instruction write
OverrideStep(step, relation) ==
    [ step EXCEPT
        !.maneuver.instruction.type = relation.override_type,
        !.maneuver.instruction.direction_modifier =
            IF relation.direction # MaxDirectionModifier
            THEN relation.direction
            ELSE @ ]

ClampedTarget(steps, via_step) == Min(via_step + 1, Len(steps) - 1)

\* Line 274: the step after the one that holds the via node
TargetStep(steps, via_step) == via_step + 1

OverrideViaAndTarget(steps, via_step, relation) ==
    LET target == TargetStep(steps, via_step)
        written == [ steps EXCEPT ![via_step + 1] = OverrideStep(@, relation) ]
    IN  IF target < Len(steps)
        THEN [ written EXCEPT ![target + 1] = OverrideStep(@, relation) ]
        ELSE written

\* Lines 274-286: the steps after the write; none is written when the target
\* is past the end of the leg
ApplyOverride(steps, via_step, relation) ==
    LET target == TargetStep(steps, via_step)
    IN  IF target < Len(steps)
        THEN [ steps EXCEPT ![target + 1] = OverrideStep(@, relation) ]
        ELSE steps

LeaveRelationLoopOnly(is_done, step_it, rel_it, n_overrides) ==
    IF (~is_done) /\ rel_it + 1 < n_overrides
    THEN [pc |-> "relation", current_step_it |-> step_it, relation_it |-> rel_it + 1]
    ELSE [pc |-> "resolve", current_step_it |-> step_it + 1, relation_it |-> 0]

\* Lines 287-293: where the loops go after an override was looked at.  With
\* `done` set both loops are left; otherwise the next override of the step, or
\* after the last one the next step.
LoopExit(is_done, step_it, rel_it, n_overrides) ==
    IF is_done
    THEN [pc |-> "push", current_step_it |-> step_it, relation_it |-> rel_it]
    ELSE IF rel_it + 1 < n_overrides
         THEN [pc |-> "relation", current_step_it |-> step_it, relation_it |-> rel_it + 1]
         ELSE [pc |-> "resolve", current_step_it |-> step_it + 1, relation_it |-> 0]

----------------------------------------------------------------------------
(* MakeRoute, lines 347-416: annotation extraction *)

\* Lines 351-356: the legacy boolean with a neutral bit set asks for everything
requested_annotations(params) ==
    IF params.annotations = TRUE /\ params.annotations_type = AnnotationsNone
    THEN AnnotationsAll
    ELSE params.annotations_type

\* Line 370: std::round(distance / duration * 10.) / 10., kept in tenths;
\* std::round rounds halves away from zero (the values here are positive).
SpeedTenths(anno) == (2 * 10 * anno.distance + anno.duration) \div (2 * anno.duration)

\* The Get lambdas of lines 369-400, by the key they fill
AnnotationValue(key, anno) ==
    CASE key = "speed" -> SpeedTenths(anno)
      [] key = "duration" -> anno.duration
      [] key = "distance" -> anno.distance
      [] key = "weight" -> anno.weight
      [] key = "datasources" -> anno.datasource

GetAnnotationsButLast(geometry, key) ==
    [ n \in 1 .. (Len(geometry.annotations) - 1) |->
        AnnotationValue(key, geometry.annotations[n]) ]

\* Lines 87-98: one value per annotation of the leg, in order
GetAnnotations(geometry, key) ==
    [ n \in 1 .. Len(geometry.annotations) |->
        AnnotationValue(key, geometry.annotations[n]) ]

\* Lines 366-412: the keys of a leg's annotation object.  The speed test
\* reads parameters.annotations_type, the others requested_annotations.
AnnotationKeys(params) ==
    LET requested == requested_annotations(params)
    IN  (IF HasFlag(params.annotations_type, "Speed") THEN {"speed"} ELSE {})
        \cup (IF HasFlag(requested, "Duration") THEN {"duration"} ELSE {})
        \cup (IF HasFlag(requested, "Distance") THEN {"distance"} ELSE {})
        \cup (IF HasFlag(requested, "Weight") THEN {"weight"} ELSE {})
        \cup (IF HasFlag(requested, "Datasources") THEN {"datasources"} ELSE {})
        \cup (IF HasFlag(requested, "Nodes") THEN {"nodes"} ELSE {})

\* Lines 363-412: the annotation object of one leg
MakeAnnotation(params, geometry) ==
    [ key \in AnnotationKeys(params) |->
        IF key = "nodes"
        THEN [ n \in 1 .. Len(geometry.osm_node_ids) |-> geometry.osm_node_ids[n] ]
        ELSE GetAnnotations(geometry, key) ]

\* Lines 358-416: one annotation object per leg when anything is requested
ExtractAnnotations(params, geometries) ==
    IF requested_annotations(params) # AnnotationsNone
    THEN [ i \in 1 .. Len(geometries) |-> MakeAnnotation(params, geometries[i]) ]
    ELSE << >>

----------------------------------------------------------------------------
(* MakeResponse, lines 45-67 *)

SkipsNoRoute(raw_route) == FALSE

\* Lines 54-55: if (!route.is_valid()) continue;
SkipsRoute(raw_route) == ~is_valid(raw_route)

\* Lines 52-60: the loop over the raw routes; an invalid route is passed over,
\* a valid one is handed to MakeRoute.
NextRoute ==
    /\ pc = "routes"
    /\ route_it < Len(raw_routes)
    /\ IF SkipsRoute(At(raw_routes, route_it))
       THEN /\ route_it' = route_it + 1
            /\ UNCHANGED << pc, idx, legs, leg_geometries >>
       ELSE /\ pc' = "legs"
            /\ idx' = 0
            /\ legs' = << >>
            /\ leg_geometries' = << >>
            /\ UNCHANGED route_it
    /\ UNCHANGED << raw_routes, parameters, facade, jsRoutes, response, leg,
                    leg_geometry, chain, current_step_it, relation_it, done,
                    evaluated >>

\* Lines 63-66: the response is filled after the loop.
FinishResponse ==
    /\ pc = "routes"
    /\ route_it = Len(raw_routes)
    /\ response' = [ waypoints |-> MakeWaypoints(WaypointAnchors(raw_routes)),
                     routes |-> jsRoutes,
                     code |-> "Ok" ]
    /\ pc' = "done"
    /\ UNCHANGED << raw_routes, parameters, facade, route_it, jsRoutes, idx, legs,
                    leg_geometries, leg, leg_geometry, chain, current_step_it,
                    relation_it, done, evaluated >>

----------------------------------------------------------------------------
(* MakeRoute, lines 100-426 *)

\* The raw route MakeRoute was called with, and the leg of the loop at 132.
route == At(raw_routes, route_it)
number_of_legs == Len(route.segment_end_coordinates)
phantoms == At(route.segment_end_coordinates, idx)
path_data == At(route.unpacked_path_segments, idx)
reversed_target == At(route.target_traversed_in_reverse, idx)

\* Lines 134-162: geometry and leg are assembled; with steps requested the
\* steps are assembled and the post-processing chain follows.
AssembleLeg ==
    /\ pc = "legs"
    /\ idx < number_of_legs
    /\ leg_geometry' = assembleGeometry(path_data)
    /\ leg' = assembleLeg(path_data, assembleGeometry(path_data))
    /\ chain' = << >>
    /\ evaluated' = << >>
    /\ pc' = IF parameters.steps THEN "post" ELSE "push"
    /\ UNCHANGED << raw_routes, parameters, facade, route_it, jsRoutes, response,
                    idx, legs, leg_geometries, current_step_it, relation_it, done >>

DoneCarriedOver == done

\* Line 209: `bool done = false`, declared in the body of the loop over the
\* legs, so every leg enters its override loop with a flag of its own.
DoneAtLoopEntry == FALSE

\* Lines 196-209: the next post-processing call.  The call receives what the
\* variable it reads holds; after the last call the override loop is entered
\* with `done` false and current_step_it at leg.steps.begin().
PostProcess ==
    /\ pc = "post"
    /\ Len(chain) < Len(StageCalls)
    /\ LET call == StageCalls[Len(chain) + 1]
       IN  /\ chain' = Append(chain, [ stage |-> call.stage,
                                       writes |-> call.writes,
                                       received |-> Producer(chain, call.reads) ])
           /\ leg' = IF call.writes = "leg.steps" /\ call.reads = "steps"
                     THEN [ leg EXCEPT !.steps = assembleSteps(path_data) ]
                     ELSE leg
    /\ IF Len(chain) + 1 = Len(StageCalls)
       THEN /\ pc' = "resolve"
            /\ done' = DoneAtLoopEntry
            /\ current_step_it' = 0
            /\ relation_it' = 0
       ELSE UNCHANGED << pc, done, current_step_it, relation_it >>
    /\ UNCHANGED << raw_routes, parameters, facade, route_it, jsRoutes, response,
                    idx, legs, leg_geometries, leg_geometry, evaluated >>

\* Lines 210-222: the head of the loop over the steps.  Past the last step the
\* loop ends; a step no override starts at is passed over.
ResolveStep ==
    /\ pc = "resolve"
    /\ IF current_step_it = Len(leg.steps)
       THEN /\ pc' = "push"
            /\ UNCHANGED << current_step_it, relation_it >>
       ELSE LET overrides == GetOverridesThatStartAt(
                                 facade, At(leg.steps, current_step_it).from_id)
            IN  IF overrides = << >>
                THEN /\ current_step_it' = current_step_it + 1
                     /\ UNCHANGED << pc, relation_it >>
                ELSE /\ pc' = "relation"
                     /\ relation_it' = 0
                     /\ UNCHANGED current_step_it
    /\ UNCHANGED << raw_routes, parameters, facade, route_it, jsRoutes, response,
                    idx, legs, leg_geometries, leg, leg_geometry, chain, done,
                    evaluated >>

\* Lines 223-293: one override of the current step is looked at: the to_node
\* check, the via search, the instruction write, and the way out of the loops.
\* The way out reads `done` (lines 289, 292), which line 266 sets on a match.
EvalRelation ==
    /\ pc = "relation"
    /\ LET overrides == GetOverridesThatStartAt(
                            facade, At(leg.steps, current_step_it).from_id)
           maneuver_relation == At(overrides, relation_it)
           skipped == RelationSkipped(leg.steps, current_step_it, phantoms,
                                      reversed_target, maneuver_relation)
           via_step == ViaStep(facade, leg.steps, leg_geometry, current_step_it,
                               maneuver_relation)
           matched == (~skipped) /\ via_step # max_steps_fwd(leg.steps, current_step_it)
           done_after == IF matched THEN TRUE ELSE done
           exit == LoopExit(done_after, current_step_it, relation_it, Len(overrides))
       IN  /\ done' = done_after
           /\ leg' = IF matched
                     THEN [ leg EXCEPT !.steps =
                                ApplyOverride(leg.steps, via_step, maneuver_relation) ]
                     ELSE leg
           /\ evaluated' = Append(evaluated,
                              [ step |-> current_step_it,
                                rel_it |-> relation_it,
                                relation |-> maneuver_relation,
                                skipped |-> skipped,
                                via_step |-> IF matched THEN via_step ELSE -1 ])
           /\ pc' = exit.pc
           /\ current_step_it' = exit.current_step_it
           /\ relation_it' = exit.relation_it
    /\ UNCHANGED << raw_routes, parameters, facade, route_it, jsRoutes, response,
                    idx, legs, leg_geometries, leg_geometry, chain >>

\* Lines 297-298: the leg and its geometry are kept; the loop goes on.
PushLeg ==
    /\ pc = "push"
    /\ leg_geometries' = Append(leg_geometries, leg_geometry)
    /\ legs' = Append(legs, leg)
    /\ idx' = idx + 1
    /\ pc' = "legs"
    /\ UNCHANGED << raw_routes, parameters, facade, route_it, jsRoutes, response,
                    leg, leg_geometry, chain, current_step_it, relation_it, done,
                    evaluated >>

\* Lines 301-425 and 57: after the last leg the route is assembled, the
\* annotations are extracted, and the result is appended to jsRoutes.
FinishRoute ==
    /\ pc = "legs"
    /\ idx = number_of_legs
    /\ jsRoutes' = Append(jsRoutes,
                     [ legs |-> legs,
                       annotations |-> ExtractAnnotations(parameters, leg_geometries),
                       distance |-> assembleRoute(legs).distance ])
    /\ route_it' = route_it + 1
    /\ pc' = "routes"
    /\ UNCHANGED << raw_routes, parameters, facade, response, idx, legs,
                    leg_geometries, leg, leg_geometry, chain, current_step_it,
                    relation_it, done, evaluated >>

Next ==
    \/ NextRoute
    \/ FinishResponse
    \/ AssembleLeg
    \/ PostProcess
    \/ ResolveStep
    \/ EvalRelation
    \/ PushLeg
    \/ FinishRoute

----------------------------------------------------------------------------
(* The explored inputs *)

Coordinate(n) == [lon |-> n, lat |-> n + n]

Phantom(forward, reverse) ==
    [forward_segment_id |-> forward, reverse_segment_id |-> reverse]

\* Segment n of leg number l: every field of every segment has its own value.
SegmentAnnotation(l, n) ==
    [ distance |-> 100 * l + 10 * n + 1,
      duration |-> 10 * l + n + 2,
      weight |-> 100 * l + 10 * n + 3,
      datasource |-> l + n ]

\* A leg geometry of n locations: the coordinates of path nodes 1..n.
PathGeometry(l, n) ==
    [ locations |-> [ j \in 1 .. n |-> Coordinate(j) ],
      annotations |-> [ j \in 1 .. (n - 1) |-> SegmentAnnotation(l, j) ],
      osm_node_ids |-> [ j \in 1 .. n |-> 1000 * l + j ] ]

\* One step per location.  Step k starts at location k; with `overlap` 1 its
\* slice also holds the location the next step starts at.
PathSteps(ids, overlap) ==
    [ k \in 1 .. Len(ids) |->
        [ from_id |-> ids[k],
          geometry_begin |-> k - 1,
          geometry_end |-> Min(k + overlap, Len(ids)),
          maneuver |-> [instruction |-> ComputedInstruction] ] ]

PathData(l, ids, overlap) ==
    [ geometry |-> PathGeometry(l, Len(ids)), steps |-> PathSteps(ids, overlap) ]

\* Step ids: every step starts on node 1 but the one at `marker`, on node 2.
MarkedIds(len, marker) == [ k \in 1 .. len |-> IF k = marker THEN 2 ELSE 1 ]

Override(from, via, to, type, direction) ==
    [ from_node |-> from, via_node_id |-> via, to_node |-> to,
      override_type |-> type, direction |-> direction ]

\* The facade: via node v lies at Coordinate(v), i.e. at location v - 1 of a
\* leg with at least v locations; via node 0 lies on no leg.
Facade(overrides) ==
    [ overrides |-> overrides,
      coordinates |-> [ v \in 0 .. (MaxSteps + 1) |-> Coordinate(v) ] ]

InitLocals ==
    /\ pc = "routes"
    /\ route_it = 0
    /\ jsRoutes = << >>
    /\ response = << >>
    /\ idx = 0
    /\ legs = << >>
    /\ leg_geometries = << >>
    /\ leg = [steps |-> << >>, distance |-> 0]
    /\ leg_geometry = [locations |-> << >>, annotations |-> << >>, osm_node_ids |-> << >>]
    /\ chain = << >>
    /\ current_step_it = 0
    /\ relation_it = 0
    /\ done = FALSE
    /\ evaluated = << >>

(* Override resolution runs: one route of one leg of up to MaxSteps steps,   *)
(* the target anchor with forward id 3 and reverse id 2, no stored override, *)
(* one, or a pair of them.                                                   *)

SingleOverrides(len) ==
    { << Override(from, via, to, "Continue", direction) >> :
        from \in {1, 2}, via \in 0 .. len, to \in {1, 2, 3},
        direction \in {MaxDirectionModifier, "Left"} }

\* A pair of stored overrides, the second of another type; its via node is
\* the first one's or the node after it.
PairedOverrides(len) ==
    { << Override(from1, via1, to1, "Continue", MaxDirectionModifier),
         Override(from2, via1 + next, 1, "Merge", "Right") >> :
        from1 \in {1, 2}, via1 \in 0 .. len, to1 \in {2, 3},
        from2 \in {1, 2}, next \in {0, 1} }

OverrideTables(len) == { << >> } \cup SingleOverrides(len) \cup PairedOverrides(len)

ResolveRoutesOf(len) ==
    { [ valid |-> TRUE,
        segment_end_coordinates |->
            << [source_phantom |-> Phantom(8, 9), target_phantom |-> Phantom(3, 2)] >>,
        unpacked_path_segments |-> << PathData(1, MarkedIds(len, marker), overlap) >>,
        target_traversed_in_reverse |-> << reversed >> ] :
        marker \in 0 .. len, overlap \in {0, 1}, reversed \in BOOLEAN }

ResolveRoutes == UNION { ResolveRoutesOf(len) : len \in 1 .. MaxSteps }

InitResolve ==
    /\ \E r \in ResolveRoutes :
          /\ raw_routes = << r >>
          /\ \E table \in OverrideTables(Len(r.unpacked_path_segments[1].steps)) :
                facade = Facade(table)
    /\ parameters = [steps |-> TRUE, annotations |-> FALSE,
                     annotations_type |-> AnnotationsNone]
    /\ InitLocals

SpecResolve == InitResolve /\ [][Next]_vars

(* Response runs: up to MaxRoutes raw routes, each valid or not and of 1 to   *)
(* MaxLegs legs.  The route at position p has anchors, node ids and segment  *)
(* values of its own (tagged by p), so an entry of the response tells the    *)
(* raw route it was built from.  Every leg has two steps, on nodes 1 and 2,  *)
(* and the facade stores one override of the turn between them.              *)

ResponseAnchors(p, l) ==
    [ source_phantom |-> Phantom(100 * p + 10 * l, 100 * p + 10 * l + 1),
      target_phantom |-> Phantom(100 * p + 10 * l + 2, 100 * p + 10 * l + 3) ]

ResponseRoute(p, valid, n_legs) ==
    [ valid |-> valid,
      segment_end_coordinates |-> [ l \in 1 .. n_legs |-> ResponseAnchors(p, l) ],
      unpacked_path_segments |->
          [ l \in 1 .. n_legs |-> PathData(10 * p + l, << 1, 2 >>, 1) ],
      target_traversed_in_reverse |-> [ l \in 1 .. n_legs |-> FALSE ] ]

ResponseInputs ==
    UNION { { [ p \in 1 .. m |-> ResponseRoute(p, shape[p][1], shape[p][2]) ] :
                shape \in [ 1 .. m -> BOOLEAN \X (1 .. MaxLegs) ] } :
            m \in 1 .. MaxRoutes }

Init ==
    /\ raw_routes \in ResponseInputs
    /\ parameters \in [ steps : BOOLEAN, annotations : {FALSE},
                        annotations_type : {AnnotationsNone, AnnotationsAll} ]
    /\ facade = Facade(<< Override(1, 2, 2, "Continue", "Left") >>)
    /\ InitLocals

Spec == Init /\ [][Next]_vars

(* Annotation runs: one valid route of 1 to MaxLegs legs, each of 1 to       *)
(* MaxLocations locations, under every annotation request.                   *)

AnnotateRoutes ==
    UNION { { [ valid |-> TRUE,
                segment_end_coordinates |-> [ l \in 1 .. m |-> ResponseAnchors(1, l) ],
                unpacked_path_segments |->
                    [ l \in 1 .. m |-> PathData(l, [ k \in 1 .. size[l] |-> 1 ], 1) ],
                target_traversed_in_reverse |-> [ l \in 1 .. m |-> FALSE ] ] :
                size \in [ 1 .. m -> 1 .. MaxLocations ] } :
            m \in 1 .. MaxLegs }

InitAnnotate ==
    /\ \E r \in AnnotateRoutes : raw_routes = << r >>
    /\ parameters \in [ steps : BOOLEAN, annotations : BOOLEAN,
                        annotations_type : SUBSET AnnotationFlags ]
    /\ facade = Facade(<< Override(1, 2, 1, "Continue", "Left") >>)
    /\ InitLocals

SpecAnnotate == InitAnnotate /\ [][Next]_vars

(* Multi-leg resolution runs: one valid route of 1 to MaxLegs legs, each of *)
(* 1 to MaxLocations steps, all on node 1 or the last one on node 2; the   *)
(* slices of all legs overlap or none does.  The facade stores one override *)
(* from node 1, or two of them, the first with a via node on no leg.        *)

LegIds(len, last_id) == [ k \in 1 .. len |-> IF k = len THEN last_id ELSE 1 ]

LegsRoute(shape, overlap) ==
    [ valid |-> TRUE,
      segment_end_coordinates |->
          [ l \in 1 .. Len(shape) |->
              [source_phantom |-> Phantom(8, 9), target_phantom |-> Phantom(3, 2)] ],
      unpacked_path_segments |->
          [ l \in 1 .. Len(shape) |->
              PathData(l, LegIds(shape[l][1], shape[l][2]), overlap) ],
      target_traversed_in_reverse |-> [ l \in 1 .. Len(shape) |-> FALSE ] ]

LegsRoutes ==
    UNION { { LegsRoute(shape, overlap) :
                shape \in [ 1 .. m -> (1 .. MaxLocations) \X {1, 2} ],
                overlap \in {0, 1} } :
            m \in 1 .. MaxLegs }

LegsTables ==
    { << Override(1, via, to, "Continue", "Left") >> : via \in {1, 2}, to \in {1, 2} }
    \cup
    { << Override(1, 0, 1, "Merge", MaxDirectionModifier),
         Override(1, via, 1, "Continue", "Left") >> : via \in {1, 2} }

InitLegs ==
    /\ \E r \in LegsRoutes : raw_routes = << r >>
    /\ \E table \in LegsTables : facade = Facade(table)
    /\ parameters = [steps |-> TRUE, annotations |-> FALSE,
                     annotations_type |-> AnnotationsNone]
    /\ InitLocals

SpecLegs == InitLegs /\ [][Next]_vars

----------------------------------------------------------------------------
(* Vocabulary of the statements about the override resolver *)

\* The override loop of the current leg is running, or has ended.
Resolving == pc \in {"resolve", "relation"}
Resolved == pc = "push" /\ parameters.steps

\* The steps of the current leg as the guidance chain computed them.
computed_steps == assembleSteps(path_data)

\* Offsets of the steps of the current leg, and the overrides of step i.
StepOffsets == 0 .. (Len(computed_steps) - 1)
OverridesOf(i) == GetOverridesThatStartAt(facade, At(computed_steps, i).from_id)

\* The loop positions (step, override of the step), and their loop order.
Positions == { << i, r >> : i \in StepOffsets, r \in 0 .. (Len(facade.overrides) - 1) }
IsPosition(p) == p[2] < Len(OverridesOf(p[1]))
Before(p, q) == p[1] < q[1] \/ (p[1] = q[1] /\ p[2] < q[2])

\* Position p passes the to_node check and the via search.
Passes(p) ==
    LET relation == At(OverridesOf(p[1]), p[2])
    IN  /\ ~RelationSkipped(computed_steps, p[1], phantoms, reversed_target, relation)
        /\ ViaStep(facade, computed_steps, leg_geometry, p[1], relation)
              # max_steps_fwd(computed_steps, p[1])

EvaluatedPositions == { << evaluated[n].step, evaluated[n].rel_it >> : n \in 1 .. Len(evaluated) }
Matches == { n \in 1 .. Len(evaluated) : evaluated[n].via_step # -1 }
ChangedSteps == { k \in StepOffsets : At(leg.steps, k) # At(computed_steps, k) }

\* The last evaluation, when it found the via node.
HasMatch == Matches # {}
LastEvaluation == evaluated[Len(evaluated)]

----------------------------------------------------------------------------
(* C4: first match stops the leg.  An evaluation that finds the via node is  *)
(* the last one of the leg: the loops are left at once, no override of the   *)
(* same step and none of a later step is looked at.  The overrides are       *)
(* looked at in (step, facade order); every one before the match failed a    *)
(* check, so the match is the first position that passes both checks, and    *)
(* at most one step of the leg is written.                                   *)
C4_FirstMatchStopsLeg ==
    (parameters.steps /\ (Resolving \/ Resolved)) =>
        /\ \A n \in Matches : n = Len(evaluated)
        /\ HasMatch => ~Resolving
        /\ \A n \in 1 .. Len(evaluated) :
              /\ IsPosition(<< evaluated[n].step, evaluated[n].rel_it >>)
              /\ (n \in Matches) <=> Passes(<< evaluated[n].step, evaluated[n].rel_it >>)
              /\ n > 1 => Before(<< evaluated[n - 1].step, evaluated[n - 1].rel_it >>,
                                 << evaluated[n].step, evaluated[n].rel_it >>)
        /\ Cardinality(ChangedSteps) <= 1
        /\ ~HasMatch => ChangedSteps = {}
        /\ Resolved =>
              \A p \in { q \in Positions : IsPosition(q) } :
                  IF HasMatch
                  THEN LET m == << LastEvaluation.step, LastEvaluation.rel_it >>
                       IN  /\ Before(p, m) => (p \in EvaluatedPositions /\ ~Passes(p))
                           /\ Before(m, p) => p \notin EvaluatedPositions
                  ELSE p \in EvaluatedPositions /\ ~Passes(p)

\* A leg whose resolution ended on a match while a later position passes both
\* checks too, and would have written another step.
C4_Witness ==
    /\ Resolved
    /\ HasMatch
    /\ \E p \in { q \in Positions : IsPosition(q) } :
          /\ Before(<< LastEvaluation.step, LastEvaluation.rel_it >>, p)
          /\ Passes(p)
          /\ ViaStep(facade, computed_steps, leg_geometry, p[1], At(OverridesOf(p[1]), p[2]))
                # LastEvaluation.via_step
    /\ \E p \in { q \in Positions : IsPosition(q) } :
          /\ Before(p, << LastEvaluation.step, LastEvaluation.rel_it >>)
          /\ p[1] = LastEvaluation.step
    /\ ChangedSteps # {}

\* The offsets of the steps that start on `node`.
StepsStartingOn(node) == { k \in StepOffsets : At(computed_steps, k).from_id = node }

\* The lookahead window of from-step i as the statements give it:
\* [i, min(i + 5, len)).
WindowOf(i) == { k \in StepOffsets : i <= k /\ k < i + 5 }

\* The window steps whose geometry slice holds the coordinate of `via`.
StepsHolding(i, via) ==
    { k \in WindowOf(i) :
        \E j \in At(computed_steps, k).geometry_begin ..
                 (At(computed_steps, k).geometry_end - 1) :
            At(leg_geometry.locations, j) = facade.coordinates[via] }

\* The steps of the leg with the step at offset `target` overridden by o.
WithOverride(steps, target, o) ==
    [ k \in 1 .. Len(steps) |->
        IF k = target + 1
        THEN [ from_id |-> steps[k].from_id,
               geometry_begin |-> steps[k].geometry_begin,
               geometry_end |-> steps[k].geometry_end,
               maneuver |-> [ instruction |->
                   [ type |-> o.override_type,
                     direction_modifier |->
                         IF o.direction = MaxDirectionModifier
                         THEN steps[k].maneuver.instruction.direction_modifier
                         ELSE o.direction ] ] ]
        ELSE steps[k] ]

----------------------------------------------------------------------------
(* C5: lookahead bound.  An override whose to_node is the from_id of only    *)
(* the step 6 positions ahead of the from-step is passed over; one whose     *)
(* to_node is the from_id of only the step 5 positions ahead passes the      *)
(* to_node search, and is applied when its via coordinate lies in a step of  *)
(* the window.                                                               *)
C5_LookaheadBound ==
    (parameters.steps /\ (Resolving \/ Resolved)) =>
        \A n \in 1 .. Len(evaluated) :
            LET e == evaluated[n]
            IN  /\ StepsStartingOn(e.relation.to_node) = {e.step + 6} =>
                      (e.skipped /\ e.via_step = -1)
                /\ StepsStartingOn(e.relation.to_node) = {e.step + 5} =>
                      /\ ~e.skipped
                      /\ StepsHolding(e.step, e.relation.via_node_id) # {} =>
                            e.via_step # -1

----------------------------------------------------------------------------
(* C8: end-of-route fallback.  When no step of the window of from-step i     *)
(* starts on o.to_node, o goes on to the via search exactly when fewer than  *)
(* 5 steps remain from i to the end of the leg and the target anchor's       *)
(* segment id picked by the reversal flag (reverse id when reversed, forward *)
(* id otherwise) is o.to_node.  Otherwise o is passed over, and the next     *)
(* override of step i is the next one looked at.                             *)
C8_EndOfRouteFallback ==
    (parameters.steps /\ (Resolving \/ Resolved)) =>
        \A n \in 1 .. Len(evaluated) :
            LET e == evaluated[n]
                target == raw_routes[route_it + 1].segment_end_coordinates[idx + 1].target_phantom
                reversed == raw_routes[route_it + 1].target_traversed_in_reverse[idx + 1]
                active_id == IF reversed THEN target.reverse_segment_id
                             ELSE target.forward_segment_id
            IN  /\ (WindowOf(e.step) \cap StepsStartingOn(e.relation.to_node) = {}) =>
                      ((~e.skipped) <=>
                          (Len(computed_steps) - e.step < 5 /\ active_id = e.relation.to_node))
                /\ (WindowOf(e.step) \cap StepsStartingOn(e.relation.to_node) # {}) =>
                      ~e.skipped
                /\ e.skipped =>
                      /\ e.via_step = -1
                      /\ (e.rel_it + 1 < Len(OverridesOf(e.step))) =>
                            IF n < Len(evaluated)
                            THEN /\ evaluated[n + 1].step = e.step
                                 /\ evaluated[n + 1].rel_it = e.rel_it + 1
                            ELSE /\ pc = "relation"
                                 /\ current_step_it = e.step
                                 /\ relation_it = e.rel_it + 1

\* A reversed target whose reverse id is the to_node: the override is passed
\* over at a from-step with exactly 5 steps left, and accepted by the
\* fallback and applied at the next from-step, with 4 steps left.
C8_Witness ==
    /\ Resolved
    /\ raw_routes[route_it + 1].target_traversed_in_reverse[idx + 1]
    /\ \E n \in 1 .. Len(evaluated) : \E m \in 1 .. Len(evaluated) :
          /\ evaluated[n].skipped
          /\ Len(computed_steps) - evaluated[n].step = 5
          /\ evaluated[m].relation = evaluated[n].relation
          /\ StepsStartingOn(evaluated[n].relation.to_node) = {}
          /\ evaluated[n].relation.to_node =
                raw_routes[route_it + 1].segment_end_coordinates[idx + 1]
                    .target_phantom.reverse_segment_id
          /\ ~evaluated[m].skipped
          /\ Len(computed_steps) - evaluated[m].step = 4
          /\ evaluated[m].via_step # -1
    /\ ChangedSteps # {}

----------------------------------------------------------------------------
(* C9: target of an applied override.  For an override o of from-step i that *)
(* passed the to_node check, the via search finds the lowest window step t   *)
(* whose geometry slice holds the coordinate of o.via_node; when t + 1 is a  *)
(* step of the leg, that step and no other gets o.override_type, and gets    *)
(* o.direction unless that is the unset sentinel.  The step written depends  *)
(* on t only, not on where to_node was found.                                *)
C9_OverrideTarget ==
    (parameters.steps /\ (Resolving \/ Resolved)) =>
        /\ \A n \in 1 .. Len(evaluated) :
              LET e == evaluated[n]
                  holding == StepsHolding(e.step, e.relation.via_node_id)
              IN  (~e.skipped) =>
                      IF holding = {}
                      THEN e.via_step = -1
                      ELSE /\ e.via_step \in holding
                           /\ \A k \in holding : e.via_step <= k
        /\ IF HasMatch
           THEN leg.steps =
                    IF LastEvaluation.via_step + 1 < Len(computed_steps)
                    THEN WithOverride(computed_steps, LastEvaluation.via_step + 1,
                                      LastEvaluation.relation)
                    ELSE computed_steps
           ELSE leg.steps = computed_steps

\* An applied override with a direction: two window steps hold the via
\* coordinate, the lower one is past the from-step, and the step written is
\* not the one that starts on to_node.
C9_Witness ==
    /\ Resolved
    /\ HasMatch
    /\ LastEvaluation.relation.direction # MaxDirectionModifier
    /\ LastEvaluation.via_step > LastEvaluation.step
    /\ LastEvaluation.via_step + 1 < Len(computed_steps)
    /\ Cardinality(StepsHolding(LastEvaluation.step,
                                LastEvaluation.relation.via_node_id)) = 2
    /\ (LastEvaluation.via_step + 1) \notin StepsStartingOn(LastEvaluation.relation.to_node)
    /\ StepsStartingOn(LastEvaluation.relation.to_node) # {}
    /\ ChangedSteps = {LastEvaluation.via_step + 1}
    /\ At(leg.steps, LastEvaluation.via_step + 1).maneuver.instruction =
          [ type |-> LastEvaluation.relation.override_type,
            direction_modifier |-> LastEvaluation.relation.direction ]

----------------------------------------------------------------------------
(* C10: boundary skip.  When the first window step holding the via           *)
(* coordinate is the last step of the leg, no step is written: every step    *)
(* keeps the instruction the guidance chain computed, the resolution of the  *)
(* leg stops all the same, and the response is built as usual.               *)
C10_BoundarySkip ==
    /\ (parameters.steps /\ (Resolving \/ Resolved)) =>
          ((HasMatch /\ LastEvaluation.via_step = Len(computed_steps) - 1) =>
              /\ leg.steps = computed_steps
              /\ done
              /\ ~Resolving)
    /\ (pc = "done" /\ Len(raw_routes) = 1 /\ raw_routes[1].valid /\ parameters.steps
            /\ Len(raw_routes[1].unpacked_path_segments) = 1
            /\ HasMatch
            /\ LastEvaluation.via_step = Len(raw_routes[1].unpacked_path_segments[1].steps) - 1) =>
          /\ response.code = "Ok"
          /\ Len(response.routes) = 1
          /\ response.routes[1].legs[1].steps = raw_routes[1].unpacked_path_segments[1].steps

\* A match on the last step of a leg of several steps, found from an earlier
\* from-step, with overrides of later positions left unlooked at.
C10_Witness ==
    /\ Resolved
    /\ HasMatch
    /\ LastEvaluation.via_step = Len(computed_steps) - 1
    /\ LastEvaluation.step < LastEvaluation.via_step
    /\ \E p \in { q \in Positions : IsPosition(q) } :
          Before(<< LastEvaluation.step, LastEvaluation.rel_it >>, p)
    /\ leg.steps = computed_steps

----------------------------------------------------------------------------
(* Vocabulary of the statements about the response *)

\* Positions (from 1) of the valid raw routes, and the position of the j-th.
ValidPositions == { q \in 1 .. Len(raw_routes) : raw_routes[q].valid }
NthValid(j) ==
    CHOOSE q \in ValidPositions :
        Cardinality({ v \in ValidPositions : v <= q }) = j

\* The distance of leg l of the raw route at position q, from its segments.
RawLegDistance(q, l) ==
    LET segments == raw_routes[q].unpacked_path_segments[l].geometry.annotations
    IN  SumSeq([ n \in 1 .. Len(segments) |-> segments[n].distance ])

\* Entry `entry` of the routes array was built from the raw route at q.
BuiltFrom(entry, q) ==
    /\ Len(entry.legs) = Len(raw_routes[q].segment_end_coordinates)
    /\ \A l \in 1 .. Len(entry.legs) :
          /\ entry.legs[l].distance = RawLegDistance(q, l)
          /\ Len(entry.legs[l].steps) =
                IF parameters.steps
                THEN Len(raw_routes[q].unpacked_path_segments[l].steps)
                ELSE 0
    /\ entry.distance =
          SumSeq([ l \in 1 .. Len(entry.legs) |-> RawLegDistance(q, l) ])

----------------------------------------------------------------------------
(* C1: with k >= 1 of the m raw routes valid, the routes array of the        *)
(* response has exactly k entries, the j-th built from the data of the j-th  *)
(* valid raw route; an invalid route leaves no entry.                        *)
C1_RoutesAreTheValidOnes ==
    (pc = "done" /\ ValidPositions # {}) =>
        /\ Len(response.routes) = Cardinality(ValidPositions)
        /\ \A j \in 1 .. Len(response.routes) :
              BuiltFrom(response.routes[j], NthValid(j))

\* Three raw routes, the middle one invalid: two entries, in input order.
C1_Witness ==
    /\ pc = "done"
    /\ Len(raw_routes) = 3
    /\ ValidPositions = {1, 3}
    /\ Len(response.routes) = 2
    /\ BuiltFrom(response.routes[2], 3)
    /\ ~BuiltFrom(response.routes[2], 2)
    /\ ~BuiltFrom(response.routes[1], 3)

----------------------------------------------------------------------------
(* C2: the waypoints of the response are the leg anchors of the raw route at *)
(* index 0 (the source anchor of its first leg, then the target anchor of    *)
(* each leg), whichever routes are valid.                                    *)
C2_WaypointsOfFirstRoute ==
    pc = "done" =>
        LET anchors == raw_routes[1].segment_end_coordinates
        IN  /\ Len(response.waypoints) = Len(anchors) + 1
            /\ response.waypoints[1] = anchors[1].source_phantom
            /\ \A l \in 1 .. Len(anchors) :
                  response.waypoints[l + 1] = anchors[l].target_phantom

\* The first raw route is invalid and a later one is the only valid one, with
\* another number of legs: the waypoints are still those of the first.
C2_Witness ==
    /\ pc = "done"
    /\ ValidPositions = {Len(raw_routes)}
    /\ Len(raw_routes) > 1
    /\ Len(response.routes) = 1
    /\ Len(raw_routes[1].segment_end_coordinates)
          # Len(raw_routes[Len(raw_routes)].segment_end_coordinates)
    /\ response.waypoints[1] = raw_routes[1].segment_end_coordinates[1].source_phantom

----------------------------------------------------------------------------
(* C6: stage order.  With steps requested, every leg gets the eight          *)
(* post-processing calls once each in the order trim short segments,         *)
(* roundabouts, turn collapsing, lane changes, intersections, short names,   *)
(* relative locations, geometry resync; each call receives the steps the     *)
(* call before it produced; the override resolver runs only after the last.  *)
(* With steps not requested no stage and no override resolution runs.        *)
ExpectedStages ==
    << "trimShortSegments", "handleRoundabouts", "collapseTurnInstructions",
       "anticipateLaneChange", "buildIntersections", "suppressShortNameSegments",
       "assignRelativeLocations", "resyncGeometry" >>

C6_StageOrder ==
    /\ \A n \in 1 .. Len(chain) :
          /\ n <= Len(ExpectedStages)
          /\ chain[n].stage = ExpectedStages[n]
          /\ chain[n].received = IF n = 1 THEN "assembleSteps" ELSE ExpectedStages[n - 1]
    /\ pc = "post" => (parameters.steps /\ Len(chain) < Len(ExpectedStages))
    /\ (Resolving \/ Resolved) => Len(chain) = Len(ExpectedStages)
    /\ evaluated # << >> => Len(chain) = Len(ExpectedStages)
    /\ (pc = "push" /\ ~parameters.steps) => leg.steps = << >>
    /\ ~parameters.steps =>
          /\ chain = << >>
          /\ evaluated = << >>
          /\ pc \notin {"post", "resolve", "relation"}

\* The second leg of a route: all eight calls made, an override looked at.
C6_Witness ==
    /\ Resolved
    /\ idx = 1
    /\ Len(chain) = 8
    /\ evaluated # << >>
    /\ Len(legs) = 1

----------------------------------------------------------------------------
(* Vocabulary of the statements about annotations *)

\* The effective annotation request of the run.
EffectiveRequest ==
    IF parameters.annotations /\ parameters.annotations_type = {}
    THEN {"Duration", "Nodes", "Distance", "Weight", "Datasources", "Speed"}
    ELSE parameters.annotations_type

PerSegmentKeys == {"speed", "duration", "distance", "weight", "datasources"}

\* The value of a per-segment key for one segment of a leg geometry.
ExpectedValue(key, segment) ==
    CASE key = "speed" ->
            (20 * segment.distance + segment.duration) \div (2 * segment.duration)
      [] key = "duration" -> segment.duration
      [] key = "distance" -> segment.distance
      [] key = "weight" -> segment.weight
      [] key = "datasources" -> segment.datasource

\* The geometry of leg l of the raw route at position q.
RawGeometry(q, l) == raw_routes[q].unpacked_path_segments[l].geometry

----------------------------------------------------------------------------
(* C7: annotation array lengths.  With a non-empty effective request every   *)
(* route entry holds one annotation object per leg, in leg order; each       *)
(* per-segment array present in it has one element per annotation of the     *)
(* leg geometry, element n computed from annotation n; the nodes array has   *)
(* one element per location (one more than the annotations).  With an empty  *)
(* effective request no annotation object is produced.                       *)
C7_AnnotationLengths ==
    \A j \in 1 .. Len(jsRoutes) :
        LET q == NthValid(j)
            objects == jsRoutes[j].annotations
        IN  IF EffectiveRequest = {}
            THEN objects = << >>
            ELSE /\ Len(objects) = Len(raw_routes[q].segment_end_coordinates)
                 /\ \A l \in 1 .. Len(objects) :
                       LET geometry == RawGeometry(q, l)
                       IN  /\ DOMAIN objects[l] \subseteq PerSegmentKeys \cup {"nodes"}
                           /\ \A key \in DOMAIN objects[l] \cap PerSegmentKeys :
                                 /\ Len(objects[l][key]) = Len(geometry.annotations)
                                 /\ \A n \in 1 .. Len(geometry.annotations) :
                                       objects[l][key][n] =
                                           ExpectedValue(key, geometry.annotations[n])
                           /\ "nodes" \in DOMAIN objects[l] =>
                                 /\ Len(objects[l]["nodes"]) = Len(geometry.locations)
                                 /\ Len(objects[l]["nodes"]) = Len(geometry.annotations) + 1

\* A route of two legs of different sizes under a request for everything:
\* two annotation objects, each with all six arrays.
C7_Witness ==
    /\ Len(jsRoutes) = 1
    /\ parameters.annotations_type = AnnotationFlags
    /\ Len(jsRoutes[1].annotations) = 2
    /\ DOMAIN jsRoutes[1].annotations[1] = PerSegmentKeys \cup {"nodes"}
    /\ Len(jsRoutes[1].annotations[1]["speed"]) = 2
    /\ Len(jsRoutes[1].annotations[1]["nodes"]) = 3
    /\ Len(jsRoutes[1].annotations[2]["weight"]) = 1

----------------------------------------------------------------------------
(* C3: legacy compatibility.  A run with annotations = true and              *)
(* annotations_type = None yields, for every leg, the annotation object      *)
(* (keys and arrays) that annotations_type = All yields on the same legs.    *)
C3_LegacyCompatibility ==
    (parameters.annotations /\ parameters.annotations_type = AnnotationsNone) =>
        \A j \in 1 .. Len(jsRoutes) :
            jsRoutes[j].annotations =
                ExtractAnnotations(
                    [ parameters EXCEPT !.annotations_type = AnnotationsAll ],
                    [ l \in 1 .. Len(raw_routes[NthValid(j)].segment_end_coordinates) |->
                        RawGeometry(NthValid(j), l) ])

----------------------------------------------------------------------------
(* Vocabulary of the statements about what the resolver leaves alone *)

\* Step k of the current leg but for its maneuver instruction.
StepFrame(step) ==
    [ from_id |-> step.from_id,
      geometry_begin |-> step.geometry_begin,
      geometry_end |-> step.geometry_end ]

\* The three ways an override does not apply: no override starts at any
\* step, the to_node check fails, no window step holds the via coordinate.
NoOverrideStored == \A i \in StepOffsets : OverridesOf(i) = << >>
NoneApplies == \A n \in 1 .. Len(evaluated) : evaluated[n].via_step = -1

(* C11: frame of the override resolver.  While the resolver runs on a leg   *)
(* and when it has ended, the leg geometry (locations, annotations, node    *)
(* ids) is the assembled one; the leg has the steps the guidance chain      *)
(* computed, in their order, each with its from_id and geometry range; at   *)
(* most one step differs from the computed one, and only in its maneuver    *)
(* instruction.  When no override is stored for any step, or every override *)
(* looked at failed the to_node check or the via search, every step is the  *)
(* computed one.                                                            *)
C11_ResolverFrame ==
    (parameters.steps /\ (Resolving \/ Resolved)) =>
        /\ leg_geometry = assembleGeometry(path_data)
        /\ Len(leg.steps) = Len(computed_steps)
        /\ \A k \in StepOffsets :
              StepFrame(At(leg.steps, k)) = StepFrame(At(computed_steps, k))
        /\ Cardinality(ChangedSteps) <= 1
        /\ NoOverrideStored => (evaluated = << >> /\ leg.steps = computed_steps)
        /\ NoneApplies => leg.steps = computed_steps
        /\ leg.distance = assembleLeg(path_data, assembleGeometry(path_data)).distance

\* A leg on which an override was applied after another one failed the
\* to_node check and a third the via search: one step has a new instruction.
C11_Witness ==
    /\ Resolved
    /\ Cardinality(ChangedSteps) = 1
    /\ \E n \in 1 .. Len(evaluated) : evaluated[n].skipped
    /\ \E n \in 1 .. Len(evaluated) :
          (~evaluated[n].skipped) /\ evaluated[n].via_step = -1
    /\ \A k \in ChangedSteps :
          At(leg.steps, k).maneuver.instruction # At(computed_steps, k).maneuver.instruction

----------------------------------------------------------------------------
(* Vocabulary of the statements about the legs of a route *)

\* Leg l (counted from 1) of raw route r as it is assembled, before the
\* override loop.
LegStepsOf(r, l) == assembleSteps(r.unpacked_path_segments[l])
LegGeometryOf(r, l) == assembleGeometry(r.unpacked_path_segments[l])
LegOffsets(r, l) == 0 .. (Len(LegStepsOf(r, l)) - 1)
LegOverridesOf(r, l, i) ==
    GetOverridesThatStartAt(facade, At(LegStepsOf(r, l), i).from_id)

\* The loop positions of leg l, and those that pass the to_node check and
\* the via search on the steps and the geometry of leg l alone.
LegPositions(r, l) ==
    { p \in LegOffsets(r, l) \X (0 .. (Len(facade.overrides) - 1)) :
        p[2] < Len(LegOverridesOf(r, l, p[1])) }
LegViaStep(r, l, p) ==
    ViaStep(facade, LegStepsOf(r, l), LegGeometryOf(r, l), p[1],
            At(LegOverridesOf(r, l, p[1]), p[2]))
LegPassing(r, l) ==
    { p \in LegPositions(r, l) :
        /\ ~RelationSkipped(LegStepsOf(r, l), p[1], r.segment_end_coordinates[l],
                            r.target_traversed_in_reverse[l],
                            At(LegOverridesOf(r, l, p[1]), p[2]))
        /\ LegViaStep(r, l, p) # max_steps_fwd(LegStepsOf(r, l), p[1]) }
LegFirstPassing(r, l) ==
    CHOOSE p \in LegPassing(r, l) : \A q \in LegPassing(r, l) : p = q \/ Before(p, q)

\* What the override loop makes of leg l when it is run on leg l alone.
LegResolved(r, l) ==
    IF LegPassing(r, l) = {}
    THEN LegStepsOf(r, l)
    ELSE LET p == LegFirstPassing(r, l)
             target == LegViaStep(r, l, p) + 1
         IN  IF target < Len(LegStepsOf(r, l))
             THEN WithOverride(LegStepsOf(r, l), target,
                               At(LegOverridesOf(r, l, p[1]), p[2]))
             ELSE LegStepsOf(r, l)

\* The offsets at which `steps` differs from the assembled steps of leg l.
LegChanged(steps, r, l) ==
    { k \in LegOffsets(r, l) : At(steps, k) # At(LegStepsOf(r, l), k) }

\* Every leg of `built` is leg l of r resolved on its own; at most one step
\* of it is overridden, never the first: it lies 1 to 5 steps past the
\* from-step of the override, within the leg.
LegsIndependent(built, r) ==
    /\ \A l \in 1 .. Len(built) :
          /\ Len(built[l].steps) = Len(LegStepsOf(r, l))
          /\ built[l].steps = LegResolved(r, l)
          /\ Cardinality(LegChanged(built[l].steps, r, l)) <= 1
          /\ \A k \in LegChanged(built[l].steps, r, l) :
                /\ k # 0
                /\ LegPassing(r, l) # {}
                /\ k >= LegFirstPassing(r, l)[1] + 1
                /\ k <= Min(LegFirstPassing(r, l)[1] + 5, Len(LegStepsOf(r, l)) - 1)
    /\ Cardinality({ c \in (1 .. Len(built)) \X (0 .. MaxSteps) :
                        c[2] \in LegChanged(built[c[1]].steps, r, c[1]) })
          <= Len(built)

InMakeRoute == pc \in {"legs", "post", "resolve", "relation", "push"}

(* C12: override resolution is independent per leg.  Every leg enters its   *)
(* override loop with the stop flag unset.  The evaluations of a leg look   *)
(* at steps of that leg only, and the legs already kept stay as they were   *)
(* kept.  Whatever happened in the legs before it (an override applied, or  *)
(* passed over at the boundary), each leg comes out as the override loop    *)
(* makes it when run on that leg alone.  So a route of L legs has at most L *)
(* overridden steps, at most one per leg, and the overridden step of a leg  *)
(* is never its first: its offset is in i+1 .. min(i+5, len-1) for the      *)
(* from-step i of the override.                                             *)
C12_PerLegIndependence ==
    /\ (parameters.steps /\ Resolving /\ ~HasMatch) => ~done
    /\ (parameters.steps /\ InMakeRoute) =>
          /\ LegsIndependent(legs, route)
          /\ \A l \in 1 .. Len(leg_geometries) :
                leg_geometries[l] = LegGeometryOf(route, l)
          /\ (Resolving \/ Resolved) =>
                /\ Len(legs) = idx
                /\ Len(leg.steps) = Len(LegStepsOf(route, idx + 1))
                /\ \A n \in 1 .. Len(evaluated) :
                      /\ evaluated[n].step \in LegOffsets(route, idx + 1)
                      /\ evaluated[n].via_step \in {-1} \cup LegOffsets(route, idx + 1)
          /\ Resolved => leg.steps = LegResolved(route, idx + 1)
    /\ (pc = "done" /\ parameters.steps /\ Len(raw_routes) = 1 /\ raw_routes[1].valid) =>
          /\ Len(response.routes[1].legs) = Len(raw_routes[1].unpacked_path_segments)
          /\ LegsIndependent(response.routes[1].legs, raw_routes[1])

\* A route whose two legs were both kept with an overridden step, the second
\* after an evaluation of that leg that failed.
C12_Witness ==
    /\ pc = "legs"
    /\ parameters.steps
    /\ Len(legs) = 2
    /\ idx = number_of_legs
    /\ LegChanged(legs[1].steps, route, 1) # {}
    /\ LegChanged(legs[2].steps, route, 2) # {}
    /\ Len(evaluated) >= 2
    /\ done

====
